---- MODULE Spec2Model ----
(***************************************************************************)
(* Model of src/index.ts: the three React hooks that expose the state of   *)
(* a promise (stage, value, error) to a component.                         *)
(*                                                                         *)
(*   usePromiseState          runs on mount / when the function changes    *)
(*   useExistingPromiseState  adopts a promise handed in as a prop         *)
(*   useLatestPromiseState    run() on demand, guarded by a symbol         *)
(*                                                                         *)
(* Every handler of the source (run, an effect, a then/catch callback) is  *)
(* one action.  A handler is translated to the list of calls it makes, in  *)
(* source order; the action applies the list to the state and leaves the   *)
(* list in the variable calls.                                             *)
(***************************************************************************)
EXTENDS Integers, Sequences, FiniteSets, TLC

\* ---------------------------------------------------------------- bounds
MaxRuns == 3          \* invocations started by run() per behaviour
MaxAdoptions == 2     \* promises adopted by useExistingPromiseState per behaviour
MaxIdentities == 2    \* distinct returnsPromise identities / promise props

\* ------------------------------------------------------- values of the code
undefined == "undefined"
null == 0
PromiseStage ==
    [notRun |-> "notRun", running |-> "running", error |-> "error", success |-> "success"]

Results == {"A", "B"}          \* what an operation can fulfil with
Failures == {"boom", "bang"}   \* what an operation can reject with

VARIABLES
    hook,           \* which of the three hooks the component uses
    mounted,        \* the component is mounted
    stable,         \* the caller keeps returnsPromise the same function across renders
    stage,          \* useState: stage
    value,          \* useState: value
    error,          \* useState: error
    currentSymbol,  \* useRef: currentSymbol.current (useLatestPromiseState)
    keepLastValue,  \* parameter of useLatestPromiseState
    returnsPromise, \* identity of the function passed to usePromiseState
    promise,        \* identity of the promise passed to useExistingPromiseState
    effectDeps,     \* dependency the effect last ran with (null: never ran)
    settled,        \* useExistingPromiseState: outcome of each external promise
    invocations,    \* then/catch chains attached so far, in start order
    calls           \* the calls made by the last handler, in source order

vars == <<hook, mounted, stable, stage, value, error, currentSymbol, keepLastValue, returnsPromise,
          promise, effectDeps, settled, invocations, calls>>

\* ------------------------------------------------------------ state setters
setValue(v) == [set |-> "setValue", arg |-> v]
setError(e) == [set |-> "setError", arg |-> e]
setStage(s) == [set |-> "setStage", arg |-> s]
invoke(f) == [set |-> f, arg |-> undefined]

IPromiseState == [stage |-> stage, value |-> value, error |-> error]

SetState(state, c) ==
    CASE c.set = "setValue" -> [state EXCEPT !.value = c.arg]
      [] c.set = "setError" -> [state EXCEPT !.error = c.arg]
      [] c.set = "setStage" -> [state EXCEPT !.stage = c.arg]
      [] OTHER -> state

RECURSIVE Dispatch(_, _)
Dispatch(state, cs) ==
    IF cs = <<>> THEN state ELSE Dispatch(SetState(state, Head(cs)), Tail(cs))

\* The handler's calls take effect and are remembered.
Commit(cs) ==
    LET after == Dispatch(IPromiseState, cs)
    IN  /\ stage' = after.stage
        /\ value' = after.value
        /\ error' = after.error
        /\ calls' = cs

\* ----------------------------------------------------------- invocations
Pending == [status |-> "pending", result |-> undefined]

\* A started chain: the symbol it closed over, the promise it hangs on, who
\* started it (a call of run(), or the effect), and once its callback has
\* run: how it completed, with what, how many invocations had been started
\* by then (after) and how many callbacks had run by then (done).
Invocation(sym, p) ==
    [symbol |-> sym, promise |-> p, by |-> "run", status |-> "pending",
     result |-> undefined, after |-> 0, done |-> 0]

IsPending(i) == invocations[i].status = "pending"

Completed == {i \in DOMAIN invocations : ~IsPending(i)}

Complete(i, how, r) ==
    invocations' = [invocations EXCEPT ![i] =
        [@ EXCEPT !.status = how, !.result = r, !.after = Len(invocations),
                  !.done = Cardinality(Completed) + 1]]

\* The component is unmounted. Nothing of the hooks runs at that point: none
\* of the effects returns a cleanup, and the chains stay attached.
Unmount ==
    /\ mounted
    /\ mounted' = FALSE
    /\ calls' = <<invoke("unmount")>>
    /\ UNCHANGED <<hook, stable, stage, value, error, currentSymbol, keepLastValue,
                   returnsPromise, promise, effectDeps, settled, invocations>>

\* --------------------------------------------------- useLatestPromiseState
\* Symbol() as it would be if it gave out the symbol already current.
SymbolReused == IF currentSymbol = null THEN 1 ELSE currentSymbol
\* Symbol() as it would be if the first symbol were the value the slot starts with.
SymbolFromNull == Len(invocations)
\* Symbol(): a value equal to no symbol made before.
Symbol == Len(invocations) + 1

\* run() as it would be if it set the stage on every call.
LatestRunCallsEveryRun(keep, cur) ==
       (IF ~keep THEN <<setValue(undefined)>> ELSE <<>>)
    \o <<setError(undefined), setStage(PromiseStage.running)>>
    \o <<invoke("Symbol"), invoke("returnsPromise")>>

\* run() as it would be if it cleared the value after starting the operation.
LatestRunCallsLateClear(keep, cur) ==
       <<setError(undefined)>>
    \o (IF cur = null THEN <<setStage(PromiseStage.running)>> ELSE <<>>)
    \o <<invoke("Symbol"), invoke("returnsPromise")>>
    \o (IF ~keep THEN <<setValue(undefined)>> ELSE <<>>)

LatestRunCalls(keep, cur) ==
       (IF ~keep THEN <<setValue(undefined)>> ELSE <<>>)
    \o <<setError(undefined)>>
    \o (IF cur = null THEN <<setStage(PromiseStage.running)>> ELSE <<>>)
    \o <<invoke("Symbol"), invoke("returnsPromise")>>

\* The then callback as it would be without the symbol comparison.
LatestThenCallsUnguarded(cur, thisRunSymbol, result) ==
    <<setStage(PromiseStage.success), setValue(result)>>

LatestThenCalls(cur, thisRunSymbol, result) ==
    IF cur = thisRunSymbol
    THEN <<setStage(PromiseStage.success), setValue(result)>>
    ELSE <<>>

\* The catch callback as it would be if it left the value alone.
LatestCatchCallsKeepsValue(cur, thisRunSymbol, err) ==
    IF cur = thisRunSymbol
    THEN <<setStage(PromiseStage.error), setError(err)>>
    ELSE <<>>

\* The catch callback as it would be without the symbol comparison.
LatestCatchCallsUnguarded(cur, thisRunSymbol, err) ==
    <<setStage(PromiseStage.error), setValue(undefined), setError(err)>>

LatestCatchCalls(cur, thisRunSymbol, err) ==
    IF cur = thisRunSymbol
    THEN <<setStage(PromiseStage.error), setValue(undefined), setError(err)>>
    ELSE <<>>

LatestRun ==
    /\ mounted
    /\ Len(invocations) < MaxRuns
    /\ LET thisRunSymbol == Symbol
       IN  /\ Commit(LatestRunCalls(keepLastValue, currentSymbol))
           /\ currentSymbol' = thisRunSymbol
           /\ invocations' = Append(invocations, Invocation(thisRunSymbol, Len(invocations) + 1))
    /\ UNCHANGED <<hook, mounted, stable, keepLastValue, returnsPromise, promise, effectDeps, settled>>

LatestThen(i, result) ==
    /\ IsPending(i)
    /\ Commit(LatestThenCalls(currentSymbol, invocations[i].symbol, result))
    /\ Complete(i, "fulfilled", result)
    /\ UNCHANGED <<hook, mounted, stable, currentSymbol, keepLastValue, returnsPromise, promise, effectDeps, settled>>

LatestCatch(i, err) ==
    /\ IsPending(i)
    /\ Commit(LatestCatchCalls(currentSymbol, invocations[i].symbol, err))
    /\ Complete(i, "rejected", err)
    /\ UNCHANGED <<hook, mounted, stable, currentSymbol, keepLastValue, returnsPromise, promise, effectDeps, settled>>

LatestFulfil == \E i \in DOMAIN invocations : \E r \in Results : LatestThen(i, r)
LatestReject == \E i \in DOMAIN invocations : \E e \in Failures : LatestCatch(i, e)

InitLatest ==
    /\ hook = "useLatestPromiseState"
    /\ mounted = TRUE
    /\ stable = TRUE
    /\ stage = PromiseStage.notRun
    /\ value = undefined
    /\ error = undefined
    /\ currentSymbol = null
    /\ keepLastValue \in BOOLEAN
    /\ returnsPromise = 1
    /\ promise = 1
    /\ effectDeps = null
    /\ settled = [p \in 1..MaxIdentities |-> Pending]
    /\ invocations = <<>>
    /\ calls = <<>>

NextLatest == LatestRun \/ LatestFulfil \/ LatestReject \/ Unmount

SpecLatest == InitLatest /\ [][NextLatest]_vars

\* --------------------------------------------------------- usePromiseState
\* run() as it would be if it left the stage alone.
PromiseStateRunCallsNoStage ==
    <<setValue(undefined), setError(undefined), invoke("returnsPromise")>>

PromiseStateRunCalls ==
    <<setValue(undefined), setError(undefined), setStage(PromiseStage.running),
      invoke("returnsPromise")>>

\* The then callback as it would be if it set the stage only.
PromiseStateThenCallsStageOnly(result) ==
    <<setStage(PromiseStage.success)>>

PromiseStateThenCalls(result) ==
    <<setStage(PromiseStage.success), setValue(result)>>

PromiseStateCatchCalls(err) ==
    <<setStage(PromiseStage.error), setError(err)>>

\* A setter called with a value other than the current one makes the
\* component render again; a caller that does not keep returnsPromise stable
\* (no useCallback) passes another function in that render.
Rerendered ==
    returnsPromise' =
        IF ~stable /\ mounted /\ <<stage', value', error'>> # <<stage, value, error>>
        THEN returnsPromise + 1
        ELSE returnsPromise

\* run(): no symbol is made, the chain closes over nothing.
PromiseStateStart(by) ==
    /\ Len(invocations) < MaxRuns
    /\ Commit(PromiseStateRunCalls)
    /\ Rerendered
    /\ invocations' = Append(invocations,
            [Invocation(null, Len(invocations) + 1) EXCEPT !.by = by])

\* run() called by the component, which has it once mounted.
PromiseStateRun ==
    /\ mounted
    /\ effectDeps # null
    /\ PromiseStateStart("run")
    /\ UNCHANGED <<hook, mounted, stable, currentSymbol, keepLastValue, promise, effectDeps, settled>>

\* The effect as it would be without its dependency list: run on every render.
PromiseStateEffectEveryRender ==
    /\ mounted
    /\ PromiseStateStart("effect")
    /\ effectDeps' = returnsPromise
    /\ UNCHANGED <<hook, mounted, stable, currentSymbol, keepLastValue, promise, settled>>

\* The effect as it would be with an empty dependency list: run on mount only.
PromiseStateEffectOnMount ==
    /\ mounted
    /\ effectDeps = null
    /\ PromiseStateStart("effect")
    /\ effectDeps' = returnsPromise
    /\ UNCHANGED <<hook, mounted, stable, currentSymbol, keepLastValue, promise, settled>>

\* useEffect(() => run(), [run]): run is a new callback on mount and whenever
\* returnsPromise is another function.
PromiseStateEffect ==
    /\ mounted
    /\ effectDeps # returnsPromise
    /\ PromiseStateStart("effect")
    /\ effectDeps' = returnsPromise
    /\ UNCHANGED <<hook, mounted, stable, currentSymbol, keepLastValue, promise, settled>>

\* The component renders with another function as returnsPromise.
PromiseStateRender ==
    /\ mounted
    /\ returnsPromise < MaxIdentities
    /\ returnsPromise' = returnsPromise + 1
    /\ calls' = <<>>
    /\ UNCHANGED <<hook, mounted, stable, stage, value, error, currentSymbol, keepLastValue, promise,
                   effectDeps, settled, invocations>>

\* The then callback as it would be under a guard like that of
\* useLatestPromiseState: only the invocation started last writes.
PromiseStateThenGuarded(i, result) ==
    /\ IsPending(i)
    /\ Commit(IF i = Len(invocations) THEN PromiseStateThenCalls(result) ELSE <<>>)
    /\ Rerendered
    /\ Complete(i, "fulfilled", result)
    /\ UNCHANGED <<hook, mounted, stable, currentSymbol, keepLastValue, promise, effectDeps, settled>>

PromiseStateThen(i, result) ==
    /\ IsPending(i)
    /\ Commit(PromiseStateThenCalls(result))
    /\ Rerendered
    /\ Complete(i, "fulfilled", result)
    /\ UNCHANGED <<hook, mounted, stable, currentSymbol, keepLastValue, promise, effectDeps, settled>>

PromiseStateCatch(i, err) ==
    /\ IsPending(i)
    /\ Commit(PromiseStateCatchCalls(err))
    /\ Rerendered
    /\ Complete(i, "rejected", err)
    /\ UNCHANGED <<hook, mounted, stable, currentSymbol, keepLastValue, promise, effectDeps, settled>>

PromiseStateFulfil ==
    \E i \in DOMAIN invocations : \E r \in Results : PromiseStateThen(i, r)
PromiseStateReject ==
    \E i \in DOMAIN invocations : \E e \in Failures : PromiseStateCatch(i, e)

InitPromiseState ==
    /\ hook = "usePromiseState"
    /\ mounted = TRUE
    /\ stable = TRUE
    /\ stage = PromiseStage.notRun
    /\ value = undefined
    /\ error = undefined
    /\ currentSymbol = null
    /\ keepLastValue = TRUE
    /\ returnsPromise = 1
    /\ promise = 1
    /\ effectDeps = null
    /\ settled = [p \in 1..MaxIdentities |-> Pending]
    /\ invocations = <<>>
    /\ calls = <<>>

NextPromiseState ==
    \/ PromiseStateEffect
    \/ PromiseStateRun
    \/ PromiseStateRender
    \/ PromiseStateFulfil
    \/ PromiseStateReject
    \/ Unmount

SpecPromiseState == InitPromiseState /\ [][NextPromiseState]_vars

\* The same hook under a caller that passes a new function in every render,
\* and whose component stays mounted. Every effect that is due runs, and
\* every promise settles.
InitUnstable ==
    /\ hook = "usePromiseState"
    /\ mounted = TRUE
    /\ stable = FALSE
    /\ stage = PromiseStage.notRun
    /\ value = undefined
    /\ error = undefined
    /\ currentSymbol = null
    /\ keepLastValue = TRUE
    /\ returnsPromise = 1
    /\ promise = 1
    /\ effectDeps = null
    /\ settled = [p \in 1..MaxIdentities |-> Pending]
    /\ invocations = <<>>
    /\ calls = <<>>

NextUnstable ==
    \/ PromiseStateEffect
    \/ PromiseStateRun
    \/ PromiseStateRender
    \/ PromiseStateFulfil
    \/ PromiseStateReject

SpecUnstable ==
    /\ InitUnstable
    /\ [][NextUnstable]_vars
    /\ WF_vars(PromiseStateEffect)
    /\ WF_vars(PromiseStateFulfil \/ PromiseStateReject)

\* ------------------------------------------------- useExistingPromiseState
ExistingEffectCalls ==
    <<setStage(PromiseStage.running), invoke("then"), invoke("catch")>>

ExistingThenCalls(v) ==
    <<setValue(v), setStage(PromiseStage.success)>>

ExistingCatchCalls(e) ==
    <<setError(e), setStage(PromiseStage.error)>>

\* useEffect(..., [promise]): on mount and whenever promise is another promise.
ExistingEffect ==
    /\ mounted
    /\ effectDeps # promise
    /\ Len(invocations) < MaxAdoptions
    /\ Commit(ExistingEffectCalls)
    /\ invocations' = Append(invocations, [Invocation(null, promise) EXCEPT !.by = "effect"])
    /\ effectDeps' = promise
    /\ UNCHANGED <<hook, mounted, stable, currentSymbol, keepLastValue, returnsPromise, promise, settled>>

\* The component renders with another promise as its argument.
ExistingRender(p) ==
    /\ mounted
    /\ p # promise
    /\ promise' = p
    /\ calls' = <<>>
    /\ UNCHANGED <<hook, mounted, stable, stage, value, error, currentSymbol, keepLastValue, returnsPromise,
                   effectDeps, settled, invocations>>

\* A promise of the caller settles; the hook has no part in it.
PromiseSettles(p, how, r) ==
    /\ settled[p].status = "pending"
    /\ settled' = [settled EXCEPT ![p] = [status |-> how, result |-> r]]
    /\ calls' = <<>>
    /\ UNCHANGED <<hook, mounted, stable, stage, value, error, currentSymbol, keepLastValue, returnsPromise,
                   promise, effectDeps, invocations>>

\* The callbacks attached by the effect run once their promise has settled.
ExistingThen(i) ==
    /\ IsPending(i)
    /\ settled[invocations[i].promise].status = "fulfilled"
    /\ Commit(ExistingThenCalls(settled[invocations[i].promise].result))
    /\ Complete(i, "fulfilled", settled[invocations[i].promise].result)
    /\ UNCHANGED <<hook, mounted, stable, currentSymbol, keepLastValue, returnsPromise, promise, effectDeps, settled>>

ExistingCatch(i) ==
    /\ IsPending(i)
    /\ settled[invocations[i].promise].status = "rejected"
    /\ Commit(ExistingCatchCalls(settled[invocations[i].promise].result))
    /\ Complete(i, "rejected", settled[invocations[i].promise].result)
    /\ UNCHANGED <<hook, mounted, stable, currentSymbol, keepLastValue, returnsPromise, promise, effectDeps, settled>>

ExistingRerender == \E p \in 1..MaxIdentities : ExistingRender(p)
ExistingResolve == \E p \in 1..MaxIdentities : \E r \in Results : PromiseSettles(p, "fulfilled", r)
ExistingRejected == \E p \in 1..MaxIdentities : \E e \in Failures : PromiseSettles(p, "rejected", e)
ExistingFulfil == \E i \in DOMAIN invocations : ExistingThen(i)
ExistingReject == \E i \in DOMAIN invocations : ExistingCatch(i)

InitExisting ==
    /\ hook = "useExistingPromiseState"
    /\ mounted = TRUE
    /\ stable = TRUE
    /\ stage = PromiseStage.running
    /\ value = undefined
    /\ error = undefined
    /\ currentSymbol = null
    /\ keepLastValue = TRUE
    /\ returnsPromise = 1
    /\ promise = 1
    /\ effectDeps = null
    /\ settled = [p \in 1..MaxIdentities |-> Pending]
    /\ invocations = <<>>
    /\ calls = <<>>

NextExisting ==
    \/ ExistingEffect
    \/ ExistingRerender
    \/ ExistingResolve
    \/ ExistingRejected
    \/ ExistingFulfil
    \/ ExistingReject
    \/ Unmount

SpecExisting == InitExisting /\ [][NextExisting]_vars

\* ------------------------------------------------------------ all three hooks
Init == InitLatest \/ InitPromiseState \/ InitExisting

Next ==
    \/ hook = "useLatestPromiseState" /\ NextLatest
    \/ hook = "usePromiseState" /\ NextPromiseState
    \/ hook = "useExistingPromiseState" /\ NextExisting

Spec == Init /\ [][Next]_vars

\* useLatestPromiseState when every promise returned by returnsPromise settles.
SpecLatestFair == SpecLatest /\ WF_vars(LatestFulfil \/ LatestReject)

\* ------------------------------------------- what the claims talk about
Started == Len(invocations) > 0
Last == Len(invocations)

\* The last handler was run(): only run() calls returnsPromise.
JustRan == \E k \in DOMAIN calls : calls[k].set = "returnsPromise"

\* Invocation i settled and no later invocation had been started by then.
SettledCurrent(i) == ~IsPending(i) /\ invocations[i].after = i
\* Invocation i settled after a later invocation had been started.
SettledSuperseded(i) == ~IsPending(i) /\ invocations[i].after > i

\* In this step the callback of invocation i runs.
Completes(i) == IsPending(i) /\ invocations'[i].status # "pending"

\* ------------------------------------------ claims: useLatestPromiseState

\* C1: once the invocation that was started last has settled, the state
\* shows its outcome (Success with its result, or Error with its failure),
\* whatever the other invocations did and in whatever order they completed.
C1_LastStartedWins ==
    (Started /\ ~IsPending(Last)) =>
        /\ invocations[Last].status = "fulfilled" =>
              stage = PromiseStage.success /\ value = invocations[Last].result
        /\ invocations[Last].status = "rejected" =>
              stage = PromiseStage.error /\ error = invocations[Last].result

\* A started before B, B fulfilled, then A fulfilled with another result and
\* was dropped: the state still shows B.
C1_Witness ==
    /\ Len(invocations) = 2
    /\ invocations[2].status = "fulfilled"
    /\ invocations[1].status = "fulfilled"
    /\ invocations[1].result # invocations[2].result
    /\ calls = <<>>
    /\ value = invocations[2].result

\* C2: the completion of an invocation whose symbol is no longer the
\* current one changes none of stage, value, error; and what value or error
\* shows is always the outcome of an invocation that completed while no
\* later invocation had been started.
C2_Attributed ==
    /\ value # undefined =>
          \E i \in DOMAIN invocations :
              SettledCurrent(i) /\ invocations[i].status = "fulfilled" /\ invocations[i].result = value
    /\ error # undefined =>
          \E i \in DOMAIN invocations :
              SettledCurrent(i) /\ invocations[i].status = "rejected" /\ invocations[i].result = error

C2_StaleDropped ==
    /\ [][\A i \in DOMAIN invocations :
            (Completes(i) /\ invocations[i].symbol # currentSymbol)
                => UNCHANGED <<stage, value, error>>]_vars
    /\ []C2_Attributed

\* The first invocation completed after the second was started, while the
\* second is still pending: nothing of the first is shown.
C2_Witness ==
    /\ Len(invocations) = 2
    /\ SettledSuperseded(1)
    /\ IsPending(2)
    /\ calls = <<>>
    /\ value = undefined /\ error = undefined

\* C3: in every reachable state, stage = Success implies that value is
\* defined and error is absent (keepLastValue true or false).
C3_SuccessHasValue ==
    stage = PromiseStage.success => (value # undefined /\ error = undefined)

\* C4: in every reachable state, stage = Error implies that error is defined.
C4_ErrorHasError ==
    stage = PromiseStage.error => error # undefined

\* C5: after every run() the stage is Running, except when keepLastValue is
\* true and a value is present from a prior run.
C5_RunSetsRunning ==
    JustRan => (stage = PromiseStage.running \/ (keepLastValue /\ value # undefined))

\* C6: with keepLastValue, from a state at Success every step other than
\* the completion of the last started invocation (a run(), a dropped
\* completion) leaves stage at Success and value as it was.
C6_KeepsLastValue ==
    [][(keepLastValue /\ stage = PromiseStage.success /\ ~(Started /\ Completes(Last)))
          => (stage' = PromiseStage.success /\ value' = value)]_vars

\* run() was called after a success; the prior result is still shown.
C6_Witness ==
    /\ keepLastValue
    /\ JustRan
    /\ Len(invocations) = 2
    /\ SettledCurrent(1)
    /\ stage = PromiseStage.success
    /\ value = invocations[1].result

\* C7: with keepLastValue = false, run() calls setValue(undefined) before
\* it sets the stage and before it invokes the operation, and the value is
\* absent when run() returns, its invocation still pending.
C7_ClearsValueFirst ==
    (JustRan /\ ~keepLastValue) =>
        /\ value = undefined
        /\ IsPending(Last)
        /\ \E k \in DOMAIN calls :
              /\ calls[k] = setValue(undefined)
              /\ \A j \in DOMAIN calls :
                    calls[j].set \in {"setStage", "returnsPromise"} => k < j

\* run() after an earlier invocation had committed a value.
C7_Witness ==
    /\ ~keepLastValue
    /\ JustRan
    /\ Len(invocations) = 2
    /\ SettledCurrent(1) /\ invocations[1].status = "fulfilled"
    /\ value = undefined

\* C8: when the current invocation rejects, the state becomes Error with the
\* rejection value as error and with value absent.
C8_RejectCommits ==
    [][\A i \in DOMAIN invocations :
          (Completes(i) /\ invocations'[i].status = "rejected"
                        /\ invocations[i].symbol = currentSymbol)
             => /\ stage' = PromiseStage.error
                /\ error' = invocations'[i].result
                /\ value' = undefined]_vars

\* keepLastValue retained the first result through the second run(), and the
\* second invocation rejected.
C8_Witness ==
    /\ keepLastValue
    /\ Len(invocations) = 2
    /\ SettledCurrent(1) /\ invocations[1].status = "fulfilled"
    /\ SettledCurrent(2) /\ invocations[2].status = "rejected"
    /\ stage = PromiseStage.error
    /\ value = undefined
    /\ error = invocations[2].result

\* ------------------------------------------------ claims: usePromiseState

\* C9: in every reachable state of usePromiseState, stage = Success implies
\* value is defined and error is absent, and stage = Error implies error is
\* defined.
C9_StageMatchesFields ==
    /\ stage = PromiseStage.success => (value # undefined /\ error = undefined)
    /\ stage = PromiseStage.error => error # undefined

\* ---------------------------------------- claims: useExistingPromiseState

\* The last handler was the effect adopting a promise.
JustAdopted == \E k \in DOMAIN calls : calls[k].set = "then"

\* C10: when the effect has adopted the promise, value is absent, error is
\* absent and stage is Running.
C10_AdoptionClears ==
    JustAdopted =>
        (value = undefined /\ error = undefined /\ stage = PromiseStage.running)

\* ------------------------------------------------- the chain of a handler

\* p.then(f) where f returns ret: a rejection of p passes through.
PromiseThen(p, ret) ==
    IF p.status = "fulfilled" THEN [status |-> "fulfilled", result |-> ret] ELSE p

\* p.catch(g) as it would be if g threw what it was given.
PromiseCatchRethrows(p, ret) ==
    IF p.status = "rejected" THEN [status |-> "rejected", result |-> ret] ELSE p

\* p.catch(g) where g returns ret: the rejection is handled.
PromiseCatch(p, ret) ==
    IF p.status = "rejected" THEN [status |-> "fulfilled", result |-> ret] ELSE p

\* How returnsPromise().then(...).catch(...) of a completed invocation ends:
\* the then callback returns the result, the catch callback returns the error.
Chain(i) ==
    LET p == [status |-> invocations[i].status, result |-> invocations[i].result]
    IN  PromiseCatch(PromiseThen(p, p.result), p.result)

\* The callback of invocation i is let through to the setters: always, but
\* for useLatestPromiseState only when its symbol is the current one.
MayCommit(i) ==
    hook = "useLatestPromiseState" => invocations[i].symbol = currentSymbol

\* ------------------------------------------------- claims: every hook

\* C11: in every hook the chain built on a rejected promise ends fulfilled
\* (the rejection does not leave the hook), and when the callback of the
\* rejected invocation is let through, the state becomes Error with the
\* rejection value as error.
C11_RejectionCaptured ==
    /\ [](\A i \in Completed : Chain(i).status = "fulfilled")
    /\ [][\A i \in DOMAIN invocations :
            (Completes(i) /\ invocations'[i].status = "rejected" /\ MayCommit(i))
               => (stage' = PromiseStage.error /\ error' = invocations'[i].result)]_vars

\* An invocation of usePromiseState was rejected and the state shows it.
C11_Witness ==
    /\ hook = "usePromiseState"
    /\ Len(invocations) = 1
    /\ invocations[1].status = "rejected"
    /\ Chain(1) = [status |-> "fulfilled", result |-> invocations[1].result]
    /\ stage = PromiseStage.error
    /\ error = invocations[1].result

\* The last handler called a state setter.
Wrote == \E k \in DOMAIN calls : calls[k].set \in {"setStage", "setValue", "setError"}

\* C12: once the component is unmounted, no handler that runs calls a state
\* setter: stage, value and error are not written after destruction.
C12_NoCommitAfterDestroy ==
    ~mounted => ~Wrote

\* ------------------------------------------------ claims: usePromiseState
AllSettled == \A i \in DOMAIN invocations : ~IsPending(i)

\* The invocation whose callback ran last.
LastCompleted == CHOOSE i \in Completed : invocations[i].done = Cardinality(Completed)

\* C13: in usePromiseState, once every invocation has settled, the state is
\* the outcome of the invocation whose callback ran last, whichever was
\* started first: Success with its result, or Error with its failure.
C13_LastCompletedWins ==
    (Started /\ AllSettled) =>
        /\ invocations[LastCompleted].status = "fulfilled" =>
              stage = PromiseStage.success /\ value = invocations[LastCompleted].result
        /\ invocations[LastCompleted].status = "rejected" =>
              stage = PromiseStage.error /\ error = invocations[LastCompleted].result

\* The first invocation completed after the second and overwrote its result.
C13_Witness ==
    /\ Len(invocations) = 2
    /\ invocations[2].status = "fulfilled" /\ invocations[2].done = 1
    /\ invocations[1].status = "fulfilled" /\ invocations[1].done = 2
    /\ invocations[1].result # invocations[2].result
    /\ stage = PromiseStage.success
    /\ value = invocations[1].result

\* C14: with a single invocation of usePromiseState the states seen are
\* NotRun, then Running with value and error absent, then Success with the
\* result and no error, or Error with the failure and no value.
C14_SingleInvocationTrace ==
    /\ Len(invocations) = 0 =>
          stage = PromiseStage.notRun /\ value = undefined /\ error = undefined
    /\ (Len(invocations) = 1 /\ IsPending(1)) =>
          stage = PromiseStage.running /\ value = undefined /\ error = undefined
    /\ (Len(invocations) = 1 /\ invocations[1].status = "fulfilled") =>
          stage = PromiseStage.success /\ value = invocations[1].result /\ error = undefined
    /\ (Len(invocations) = 1 /\ invocations[1].status = "rejected") =>
          stage = PromiseStage.error /\ error = invocations[1].result /\ value = undefined

\* The one invocation, started by the effect, has fulfilled.
C14_Witness ==
    /\ Len(invocations) = 1
    /\ invocations[1].by = "effect"
    /\ invocations[1].status = "fulfilled"
    /\ stage = PromiseStage.success
    /\ value = invocations[1].result

\* The invocations the effect started.
Automatic == {i \in DOMAIN invocations : invocations[i].by = "effect"}

\* C15: the effect starts at most one invocation per function passed as
\* returnsPromise: with the function unchanged exactly one, on mount, however
\* often the hook's own writes make the component render; every other
\* invocation is a call of run().
C15_OneAutomaticRun ==
    /\ Cardinality(Automatic) <= returnsPromise
    /\ (returnsPromise = 1 /\ effectDeps # null) => Cardinality(Automatic) = 1
    /\ \A i \in DOMAIN invocations : invocations[i].by \in {"effect", "run"}

\* Same function throughout; the automatic invocation and a manual one have
\* both committed, and the effect has not run again.
C15_Witness ==
    /\ returnsPromise = 1
    /\ Len(invocations) = 2
    /\ Automatic = {1}
    /\ invocations[2].by = "run"
    /\ AllSettled
    /\ stage = PromiseStage.success

\* C16: under a caller that passes a new function in every render, once
\* mounted there is always an invocation pending or an effect due, and the
\* number of invocations started reaches any bound.
C16_NeverQuiesces ==
    /\ []((\E i \in DOMAIN invocations : IsPending(i)) \/ effectDeps # returnsPromise)
    /\ <>(Len(invocations) = MaxRuns)

\* Every invocation so far was started by the effect, and the last one was
\* started after an earlier one had completed.
C16_Witness ==
    /\ ~stable
    /\ Len(invocations) = MaxRuns
    /\ Automatic = DOMAIN invocations
    /\ ~IsPending(1)
    /\ invocations[1].after < MaxRuns

\* ------------------------------------------------- claims: every hook

\* C17: useExistingPromiseState is never at NotRun; usePromiseState and
\* useLatestPromiseState are at NotRun exactly as long as no invocation has
\* been started.
C17_NotRunOnlyBeforeFirstRun ==
    /\ hook = "useExistingPromiseState" => stage # PromiseStage.notRun
    /\ hook # "useExistingPromiseState" => (stage = PromiseStage.notRun <=> ~Started)

\* A second run() of useLatestPromiseState after the first invocation
\* completed: the stage is not back at NotRun.
C17_Witness ==
    /\ hook = "useLatestPromiseState"
    /\ JustRan
    /\ Len(invocations) = 2
    /\ ~IsPending(1)
    /\ stage # PromiseStage.notRun

\* ------------------------------------------ claims: useLatestPromiseState

\* C18: currentSymbol is null exactly while run() has never been called;
\* afterwards it is the symbol of the invocation started last; the symbols of
\* two invocations differ, so only the invocation started last carries the
\* current symbol; and no completion changes currentSymbol.
C18_Slot ==
    /\ (currentSymbol = null) <=> ~Started
    /\ Started => currentSymbol = invocations[Last].symbol
    /\ \A i, j \in DOMAIN invocations :
          i # j => invocations[i].symbol # invocations[j].symbol
    /\ \A i \in DOMAIN invocations : invocations[i].symbol = currentSymbol => i = Last

C18_TokenSlot ==
    /\ []C18_Slot
    /\ [][(\E i \in DOMAIN invocations : Completes(i)) => currentSymbol' = currentSymbol]_vars

\* Three invocations started, the first two completed, the slot holds the
\* symbol of the third.
C18_Witness ==
    /\ Len(invocations) = 3
    /\ ~IsPending(1) /\ ~IsPending(2) /\ IsPending(3)
    /\ currentSymbol = invocations[3].symbol
    /\ ~JustRan

\* C19: when every started operation settles (and run() is called at most
\* MaxRuns times), a started tracker reaches Success or Error; and once the
\* invocation started last has completed, every step that is not a run()
\* leaves stage, value and error as they are.
C19_Settles ==
    /\ Started ~> (stage \in {PromiseStage.success, PromiseStage.error})
    /\ [][(Started /\ ~IsPending(Last) /\ Len(invocations') = Len(invocations))
             => UNCHANGED <<stage, value, error>>]_vars

\* The invocation started last committed first; the one started before it
\* completed afterwards and changed nothing.
C19_Witness ==
    /\ Len(invocations) = 2
    /\ invocations[2].status = "rejected" /\ invocations[2].done = 1
    /\ invocations[1].done = 2
    /\ stage = PromiseStage.error
    /\ error = invocations[2].result

\* Every run() was issued while the previous invocation was pending: no
\* invocation has committed and the stage is still Running.
C19_StillRunning ==
    /\ Len(invocations) = MaxRuns
    /\ \A i \in 1..(MaxRuns - 1) : SettledSuperseded(i)
    /\ IsPending(MaxRuns)
    /\ stage = PromiseStage.running

\* ------------------------------------------------- claims: every hook

\* The state after the first k calls of the last handler, given the state
\* before the handler.
StateAfter(before, k) == Dispatch(before, SubSeq(calls', 1, k))

\* C20: taking each setter call as a step of its own: whenever the callback
\* of a fulfilled invocation has set the stage to Success, value already
\* holds the result of that invocation.
C20_ValueBeforeSuccess ==
    [][\A i \in DOMAIN invocations :
          (Completes(i) /\ invocations'[i].status = "fulfilled") =>
              \A k \in 1..Len(calls') :
                  (\E j \in 1..k : calls'[j] = setStage(PromiseStage.success))
                      => StateAfter(IPromiseState, k).value = invocations'[i].result]_vars

====
